---- MODULE Spec2Model ----
(***************************************************************************)
(* The inventory store of Pantry_App.py: the table `inventory` of          *)
(* pantry_inventory.db and the three functions that work on it,            *)
(* add_to_inventory, remove_from_inventory and get_inventory.              *)
(*                                                                         *)
(* A step of the model is one whole call: the function opens the database, *)
(* runs its statements, commits and closes before it returns, and the      *)
(* Streamlit script that calls it handles one user action at a time.       *)
(***************************************************************************)
EXTENDS Integers, Sequences, FiniteSets, TLC

(***************************************************************************)
(* Bounds of the model.                                                    *)
(***************************************************************************)
\* The greatest quantity a row is allowed to reach (guard of Add).
MaxQty == 2
\* The clock readings are the ticks 0..MaxTick.
MaxTick == 2
\* Ticks per second of the modelled clock (the real one has 10^6).
TicksPerSec == 2

\* The barcodes the calls are made with (non-empty strings: every caller
\* guards the call with `if barcode:`).
Barcodes == {"111", "999"}

\* st.number_input(min_value=1): lines 453, 467, 497 (Add), 588, 632 (Use);
\* the quick buttons pass the literal 1 (lines 352, 359).
Amounts == {1, 2}

\* SQL NULL / Python None for a TEXT column.
NULL == "NULL"

\* The product_info dicts passed to add_to_inventory. Every caller passes all
\* four keys: a lookup result (lines 64-69), the fields of a listed row (lines
\* 347-352) or what the user typed (lines 473-478, 504-509).
LookedUp ==
    [ name |-> "Milk", brand |-> "Acme", image_url |-> "http://img/milk", category |-> "Dairy" ]
Typed ==
    [ name |-> "Soup", brand |-> "Unknown Brand", image_url |-> "", category |-> "Manual Entry" ]

\* The (barcode, product_info, expiry_date) an Add is called with: barcode
\* "111" with the looked-up metadata and an expiry date or with typed metadata
\* and no expiry date (expiry_date.isoformat() if expiry_date else None, lines
\* 458, 479, 510), barcode "999" with typed metadata and no expiry date.
AddArguments ==
    { [ barcode |-> "111", product_info |-> LookedUp, expiry_date |-> "2030-01-31" ],
      [ barcode |-> "111", product_info |-> Typed, expiry_date |-> NULL ],
      [ barcode |-> "999", product_info |-> Typed, expiry_date |-> NULL ] }

(***************************************************************************)
(* Text and time.                                                          *)
(***************************************************************************)
\* datetime.isoformat() of the clock reading t: the seconds, and the
\* fractional part only when it is not zero ("...T10:00:00" against
\* "...T10:00:00.500000"). The fixed-width fields of the text are one element
\* each.
isoformat(t) ==
    IF t % TicksPerSec = 0
    THEN << t \div TicksPerSec >>
    ELSE << t \div TicksPerSec, t % TicksPerSec >>

\* SQLite's BINARY collation of two TEXT values: element by element, a proper
\* prefix sorting first.
RECURSIVE TextLess(_, _)
TextLess(a, b) ==
    IF b = << >> THEN FALSE
    ELSE IF a = << >> THEN TRUE
    ELSE IF Head(a) # Head(b) THEN Head(a) < Head(b)
    ELSE TextLess(Tail(a), Tail(b))

\* dict.get(key, default)
Get(d, key, default) == IF key \in DOMAIN d THEN d[key] ELSE default

Max(a, b) == IF a >= b THEN a ELSE b

(***************************************************************************)
(* State.                                                                  *)
(***************************************************************************)
VARIABLES
    table,   \* the rows of table inventory, in rowid order
    now,     \* the last reading of the clock (datetime.now())
    last,    \* the last call: its arguments, what it read, what it reported
    adds,    \* per barcode, the arguments of the Adds made for it, from the
             \* one that created its row, as long as they are the only calls
             \* that changed the row and at most two: << >> otherwise
    ui,      \* the last run of the Streamlit script: the flow the user acted
             \* in, what it was given and what it came to
    sessions \* the calls of concurrent sessions that are between their
             \* SELECT and their write

vars == << table, now, last, adds, ui, sessions >>

(***************************************************************************)
(* SQL statements.                                                         *)
(***************************************************************************)
\* SELECT ... FROM inventory WHERE barcode = ?  (the matching rows, in rowid
\* order)
SelectByBarcode(tbl, barcode) ==
    SelectSeq(tbl, LAMBDA r : r.barcode = barcode)

\* The selected columns of the rows of a result: each row a tuple.
Project(rows, cols) ==
    [ i \in 1..Len(rows) |-> [ j \in 1..Len(cols) |-> rows[i][cols[j]] ] ]

\* cursor.fetchone(): the first row of the result, or None when it is empty.
\* None is << >>: a row holds at least one column.
fetchone(rows) == IF rows = << >> THEN << >> ELSE Head(rows)

\* A slip: the UPDATE sets the quantity and leaves last_updated alone.
UpdateQuantity_NoTimestamp(tbl, barcode, new_quantity, current_time) ==
    [ i \in 1..Len(tbl) |->
        IF tbl[i].barcode = barcode
        THEN [ tbl[i] EXCEPT !.quantity = new_quantity ]
        ELSE tbl[i] ]

\* A slip: the UPDATE writes the time of the call into date_added.
UpdateQuantity_IntoDateAdded(tbl, barcode, new_quantity, current_time) ==
    [ i \in 1..Len(tbl) |->
        IF tbl[i].barcode = barcode
        THEN [ tbl[i] EXCEPT !.quantity = new_quantity,
                             !.date_added = current_time ]
        ELSE tbl[i] ]

\* A slip: the UPDATE has no WHERE clause.
UpdateQuantity_EveryRow(tbl, barcode, new_quantity, current_time) ==
    [ i \in 1..Len(tbl) |->
        [ tbl[i] EXCEPT !.quantity = new_quantity,
                        !.last_updated = current_time ] ]

\* UPDATE inventory SET quantity = ?, last_updated = ? WHERE barcode = ?
UpdateQuantity(tbl, barcode, new_quantity, current_time) ==
    [ i \in 1..Len(tbl) |->
        IF tbl[i].barcode = barcode
        THEN [ tbl[i] EXCEPT !.quantity = new_quantity,
                             !.last_updated = current_time ]
        ELSE tbl[i] ]

\* A slip: the INSERT leaves the quantity column out, and the row gets the
\* column's DEFAULT 1.
InsertRow_DefaultQuantity(tbl, barcode, product_name, brand, quantity, date_added, expiry_date, image_url, category, last_updated) ==
    IF \E i \in 1..Len(tbl) : tbl[i].barcode = barcode
    THEN [ ok |-> FALSE, table |-> tbl ]
    ELSE [ ok |-> TRUE,
           table |-> Append(tbl,
               [ id |-> Len(tbl) + 1, barcode |-> barcode, product_name |-> product_name,
                 brand |-> brand, quantity |-> 1, unit |-> "item", date_added |-> date_added,
                 expiry_date |-> expiry_date, image_url |-> image_url, category |-> category,
                 last_updated |-> last_updated ]) ]

\* INSERT INTO inventory (barcode, product_name, brand, quantity, date_added,
\* expiry_date, image_url, category, last_updated) VALUES (...): the new row
\* gets the next id (AUTOINCREMENT; no row is ever deleted) and the default
\* unit. The UNIQUE constraint on barcode refuses a second row of a barcode
\* (sqlite3.IntegrityError): ok is FALSE and the table is left as it was.
InsertRow(tbl, barcode, product_name, brand, quantity, date_added, expiry_date, image_url, category, last_updated) ==
    IF \E i \in 1..Len(tbl) : tbl[i].barcode = barcode
    THEN [ ok |-> FALSE, table |-> tbl ]
    ELSE [ ok |-> TRUE,
           table |-> Append(tbl,
               [ id |-> Len(tbl) + 1,
                 barcode |-> barcode,
                 product_name |-> product_name,
                 brand |-> brand,
                 quantity |-> quantity,
                 unit |-> "item",
                 date_added |-> date_added,
                 expiry_date |-> expiry_date,
                 image_url |-> image_url,
                 category |-> category,
                 last_updated |-> last_updated ]) ]

\* What a call shows through st.success / st.warning / st.error.
Msg(level, text, name, nums) ==
    [ level |-> level, text |-> text, name |-> name, nums |-> nums ]

(***************************************************************************)
(* The functions of the store. Each is the whole function as a function of *)
(* the table and the arguments: the table it commits, what it read, what   *)
(* it shows, what it returns (<< >> is None, << v >> the value v) and the  *)
(* exception it lets escape ("" is none).                                  *)
(***************************************************************************)
\* A slip: the new quantity replaces the old one.
AddNewQuantity_Overwrite(existing, quantity) == quantity

\* A slip: the amount is not added.
AddNewQuantity_KeepOld(existing, quantity) == existing[1]

\* new_quantity = existing[0] + quantity
AddNewQuantity(existing, quantity) == existing[1] + quantity

\* A slip: a plain INSERT into a table without the UNIQUE constraint, whether
\* or not the barcode has a row.
add_to_inventory_PlainInsert(tbl, barcode, product_info, quantity, expiry_date, current_time) ==
    [ table |-> Append(tbl,
          [ id |-> Len(tbl) + 1, barcode |-> barcode,
            product_name |-> Get(product_info, "name", "Unknown Product"),
            brand |-> Get(product_info, "brand", "Unknown Brand"),
            quantity |-> quantity, unit |-> "item", date_added |-> current_time,
            expiry_date |-> expiry_date,
            image_url |-> Get(product_info, "image_url", ""),
            category |-> Get(product_info, "category", "Unknown Category"),
            last_updated |-> current_time ]),
      read |-> << >>,
      shown |-> << Msg("success", "Added new item to inventory!", "", << >>) >>,
      ret |-> << >>,
      raised |-> "" ]

\* add_to_inventory(barcode, product_info, quantity, expiry_date), with
\* current_time the text of the clock reading of line 80. The function has no
\* return statement: it returns None.
add_to_inventory(tbl, barcode, product_info, quantity, expiry_date, current_time) ==
    LET existing == fetchone(Project(SelectByBarcode(tbl, barcode), << "quantity" >>))
    IN  IF existing # << >>
        THEN LET new_quantity == AddNewQuantity(existing, quantity)
             IN  [ table |-> UpdateQuantity(tbl, barcode, new_quantity, current_time),
                   read |-> existing,
                   shown |-> << Msg("success", "Updated quantity to {n}", "", << new_quantity >>) >>,
                   ret |-> << >>,
                   raised |-> "" ]
        ELSE LET ins == InsertRow(tbl, barcode,
                                  Get(product_info, "name", "Unknown Product"),
                                  Get(product_info, "brand", "Unknown Brand"),
                                  quantity, current_time, expiry_date,
                                  Get(product_info, "image_url", ""),
                                  Get(product_info, "category", "Unknown Category"),
                                  current_time)
             IN  IF ins.ok
                 THEN [ table |-> ins.table,
                        read |-> existing,
                        shown |-> << Msg("success", "Added new item to inventory!", "", << >>) >>,
                        ret |-> << >>,
                        raised |-> "" ]
                 ELSE [ table |-> tbl,
                        read |-> existing,
                        shown |-> << >>,
                        ret |-> << >>,
                        raised |-> "sqlite3.IntegrityError" ]

\* A slip: no max(0, ...).
UseNewQuantity_NoClamp(current_qty, quantity) == current_qty - quantity

\* new_quantity = max(0, current_qty - quantity)
UseNewQuantity(current_qty, quantity) == Max(0, current_qty - quantity)

\* A slip: the warning is given for a quantity below 0, which never happens.
ShownAfterUse_NeverWarns(product_name, quantity, new_quantity) ==
    IF new_quantity < 0
    THEN << Msg("warning", "{name} is now out of stock!", product_name, << >>) >>
    ELSE << Msg("success", "Used {n} {name}. {n} remaining.", product_name, << quantity, new_quantity >>) >>

\* if new_quantity == 0: st.warning(...) else: st.success(...)
ShownAfterUse(product_name, quantity, new_quantity) ==
    IF new_quantity = 0
    THEN << Msg("warning", "{name} is now out of stock!", product_name, << >>) >>
    ELSE << Msg("success", "Used {n} {name}. {n} remaining.", product_name, << quantity, new_quantity >>) >>

\* A slip: the else branch of `if result:` is missing.
ItemNotFound_Silent(tbl, result) ==
    [ table |-> tbl, read |-> result, shown |-> << >>, ret |-> << >>, raised |-> "" ]

\* else: st.error("Item not found in inventory!"): nothing is written, nothing
\* is raised.
ItemNotFound(tbl, result) ==
    [ table |-> tbl,
      read |-> result,
      shown |-> << Msg("error", "Item not found in inventory!", "", << >>) >>,
      ret |-> << >>,
      raised |-> "" ]

\* A slip: a row used down to 0 is deleted.
remove_from_inventory_DeleteAtZero(tbl, barcode, quantity, current_time) ==
    LET result == fetchone(Project(SelectByBarcode(tbl, barcode), << "quantity", "product_name" >>))
    IN  IF result # << >>
        THEN LET new_quantity == UseNewQuantity(result[1], quantity)
             IN  [ table |-> IF new_quantity = 0
                             THEN SelectSeq(tbl, LAMBDA r : r.barcode # barcode)
                             ELSE UpdateQuantity(tbl, barcode, new_quantity, current_time),
                   read |-> result,
                   shown |-> ShownAfterUse(result[2], quantity, new_quantity),
                   ret |-> << >>,
                   raised |-> "" ]
        ELSE ItemNotFound(tbl, result)

\* remove_from_inventory(barcode, quantity), with current_time the text of
\* the clock reading of line 129 (read only when the row is found). The
\* function has no return statement: it returns None.
remove_from_inventory(tbl, barcode, quantity, current_time) ==
    LET result == fetchone(Project(SelectByBarcode(tbl, barcode), << "quantity", "product_name" >>))
    IN  IF result # << >>
        THEN LET current_qty == result[1]
                 product_name == result[2]
                 new_quantity == UseNewQuantity(current_qty, quantity)
             IN  [ table |-> UpdateQuantity(tbl, barcode, new_quantity, current_time),
                   read |-> result,
                   shown |-> ShownAfterUse(product_name, quantity, new_quantity),
                   ret |-> << >>,
                   raised |-> "" ]
        ELSE ItemNotFound(tbl, result)

\* A slip: ORDER BY last_updated ASC.
OrderedByLastUpdated_Asc(rows) ==
    \A i \in 1..Len(rows) - 1 : ~ TextLess(rows[i + 1].last_updated, rows[i].last_updated)

\* ORDER BY last_updated DESC on the TEXT column: no row sorts before the row
\* it follows.
OrderedByLastUpdatedDesc(rows) ==
    \A i \in 1..Len(rows) - 1 : ~ TextLess(rows[i].last_updated, rows[i + 1].last_updated)

\* The orders of n rows.
Orders(n) ==
    { p \in [ 1..n -> 1..n ] : \A i, j \in 1..n : p[i] = p[j] => i = j }

\* get_inventory(): SELECT * FROM inventory ORDER BY last_updated DESC. SQL
\* leaves the order of rows with equal keys open: every order of the rows
\* that the ORDER BY allows is a possible result.
get_inventory(tbl) ==
    { df \in { [ i \in 1..Len(tbl) |-> tbl[p[i]] ] : p \in Orders(Len(tbl)) } :
        OrderedByLastUpdatedDesc(df) }

(***************************************************************************)
(* The specification.                                                      *)
(***************************************************************************)
\* No run of the script yet, or none looked at.
NoRun == [ flow |-> "none", scan |-> << >>, lookup |-> << >>, outcome |-> "nothing" ]

\* The state after init_database() has created an empty table.
Init ==
    /\ table = << >>
    /\ now = 0
    /\ last = [ op |-> "init" ]
    /\ adds = [ b \in Barcodes |-> << >> ]
    /\ ui = NoRun
    /\ sessions = << >>

\* The clock readings a call can get: the clock does not run backwards, and
\* two calls may read the same time.
ClockReadings == now..MaxTick

\* adds[barcode] after an Add with these arguments that read `read`.
AddsAfterAdd(h, read, call) ==
    IF read = << >> THEN << call >>
    ELSE IF Len(h) = 1 THEN Append(h, call)
    ELSE << >>

\* A call of add_to_inventory.
Add(barcode, product_info, quantity, expiry_date) ==
    \E t \in ClockReadings :
        LET r == add_to_inventory(table, barcode, product_info, quantity, expiry_date, isoformat(t))
        IN  /\ \A i \in 1..Len(r.table) : r.table[i].quantity <= MaxQty
            /\ table' = r.table
            /\ now' = t
            /\ last' = [ op |-> "add", barcode |-> barcode, quantity |-> quantity,
                         current_time |-> isoformat(t), read |-> r.read,
                         shown |-> r.shown, ret |-> r.ret, raised |-> r.raised ]
            /\ adds' = [ adds EXCEPT ![barcode] =
                           IF r.raised # "" THEN @
                           ELSE AddsAfterAdd(@, r.read,
                                    [ product_info |-> product_info, quantity |-> quantity,
                                      expiry_date |-> expiry_date ]) ]

\* A call of remove_from_inventory. The clock is read only when the row is
\* found (current_time << >>: not read).
Use(barcode, quantity) ==
    \E t \in IF SelectByBarcode(table, barcode) # << >> THEN ClockReadings ELSE { now } :
        LET r == remove_from_inventory(table, barcode, quantity, isoformat(t))
        IN  /\ table' = r.table
            /\ now' = t
            /\ last' = [ op |-> "use", barcode |-> barcode, quantity |-> quantity,
                         current_time |-> IF r.read # << >> THEN isoformat(t) ELSE << >>,
                         read |-> r.read,
                         shown |-> r.shown, ret |-> r.ret, raised |-> r.raised ]
            /\ adds' = [ adds EXCEPT ![barcode] = IF r.read # << >> THEN << >> ELSE @ ]

\* A call of get_inventory.
List ==
    \E df \in get_inventory(table) :
        /\ last' = [ op |-> "list", ret |-> << df >> ]
        /\ UNCHANGED << table, now, adds >>

\* The calls of the store, one at a time and each as a whole, whoever makes
\* them.
Next ==
    \/ \E a \in AddArguments, q \in Amounts :
           Add(a.barcode, a.product_info, q, a.expiry_date) /\ UNCHANGED << ui, sessions >>
    \/ \E b \in Barcodes, q \in Amounts :
           Use(b, q) /\ UNCHANGED << ui, sessions >>
    \/ List /\ UNCHANGED << ui, sessions >>

Spec == Init /\ [][Next]_vars

(***************************************************************************)
(* The presentation layer: main(). Streamlit runs the script from the top  *)
(* on every interaction; a run in which a button or form was pressed makes *)
(* the call of that button and ends in st.rerun(). One action below is one *)
(* run, seen from the flow the user acted in.                              *)
(***************************************************************************)
\* The libraries the process found at import time (lines 4-25): cv2 needs
\* numpy.
Envs ==
    { e \in [ pyzbar : BOOLEAN, cv2 : BOOLEAN, numpy : BOOLEAN ] : e.cv2 => e.numpy }

\* Photos of the camera input, by what pyzbar_decode finds in each form of
\* the picture the decoder tries (<< >>: nothing): the PIL image, the array,
\* the grayscale array, the thresholded array.
Images ==
    { [ pil |-> << "111" >>, array |-> << "111" >>, gray |-> << "111" >>, thresh |-> << "111" >> ],
      [ pil |-> << >>, array |-> << >>, gray |-> << >>, thresh |-> << "111" >> ],
      [ pil |-> << >>, array |-> << >>, gray |-> << >>, thresh |-> << >> ] }

\* st.camera_input: None (<< >>) or a photo.
CameraInputs == { << >> } \cup { << i >> : i \in Images }

\* st.text_input for the barcode: empty or typed.
ManualInputs == { "", "999" }

\* st.text_input for the product name: empty or typed.
NameInputs == { "", "Soup" }

\* The first result of a sequence of decode attempts that is not empty.
RECURSIVE FirstDecoded(_)
FirstDecoded(attempts) ==
    IF attempts = << >> THEN << >>
    ELSE IF Head(attempts) # << >> THEN Head(attempts)
    ELSE FirstDecoded(Tail(attempts))

\* decode_barcode_from_image(image) for a PIL image: None without pyzbar;
\* without numpy the PIL image only; else the array, with OpenCV the
\* grayscale and thresholded arrays too, and last the PIL image.
decode_barcode_from_image(env, image) ==
    IF ~ env.pyzbar THEN << >>
    ELSE IF ~ env.numpy THEN image.pil
    ELSE FirstDecoded(
             (IF env.cv2 THEN << image.array, image.gray, image.thresh >>
                         ELSE << image.array >>) \o << image.pil >>)

\* What the scan flows get from the camera: decode_barcode_from_image is
\* called only for a photo and with pyzbar.
Decoded(env, camera_image) ==
    IF camera_image # << >> /\ env.pyzbar
    THEN decode_barcode_from_image(env, camera_image[1])
    ELSE << >>

\* A slip: the typed barcode is used only when nothing was decoded.
ScanBarcode_DecodedFirst(env, camera_image, manual_barcode) ==
    IF Decoded(env, camera_image) # << >> THEN Decoded(env, camera_image)
    ELSE IF manual_barcode # "" THEN << manual_barcode >>
    ELSE << >>

\* The barcode of a scan flow: None, then the decoded one, then the typed one
\* when it is not empty.
ScanBarcode(env, camera_image, manual_barcode) ==
    IF manual_barcode # "" THEN << manual_barcode >>
    ELSE Decoded(env, camera_image)

\* What requests.get and response.json() come to: an exception, or a status
\* code with a body that is JSON or not.
Responses ==
    { [ exception |-> "Timeout", status_code |-> 0, json |-> FALSE, data |-> << >> ],
      [ exception |-> "ConnectionError", status_code |-> 0, json |-> FALSE, data |-> << >> ],
      [ exception |-> "", status_code |-> 404, json |-> TRUE, data |-> [ status |-> 0 ] ],
      [ exception |-> "", status_code |-> 200, json |-> FALSE, data |-> << >> ],
      [ exception |-> "", status_code |-> 200, json |-> TRUE, data |-> [ status |-> 0 ] ],
      [ exception |-> "", status_code |-> 200, json |-> TRUE,
        data |-> [ status |-> 1,
                   product |-> [ product_name |-> "Milk", brands |-> "Acme",
                                 image_url |-> "http://img/milk", categories |-> "Dairy" ] ] ] }

\* data.get('status') == 1
StatusIsOne(data) == IF "status" \in DOMAIN data THEN data.status = 1 ELSE FALSE

\* A slip: the status flag of the answer is not looked at.
FoundInAnswer_AnyStatus(data) == TRUE

\* if data.get('status') == 1
FoundInAnswer(data) == StatusIsOne(data)

\* lookup_product(barcode), by what the remote service does: what it
\* returns, what it shows and whether it raises.
lookup_product(response) ==
    IF response.exception # ""
    THEN [ ret |-> << >>,
           shown |-> << Msg("error", "Error looking up product: {e}", response.exception, << >>) >>,
           raised |-> "" ]
    ELSE IF response.status_code # 200
    THEN [ ret |-> << >>, shown |-> << >>, raised |-> "" ]
    ELSE IF ~ response.json
    THEN [ ret |-> << >>,
           shown |-> << Msg("error", "Error looking up product: {e}", "JSONDecodeError", << >>) >>,
           raised |-> "" ]
    ELSE IF FoundInAnswer(response.data)
    THEN LET product == Get(response.data, "product", << >>)
         IN  [ ret |-> << [ name |-> Get(product, "product_name", "Unknown Product"),
                            brand |-> Get(product, "brands", "Unknown Brand"),
                            image_url |-> Get(product, "image_url", ""),
                            category |-> Get(product, "categories", "Unknown Category") ] >>,
               shown |-> << >>,
               raised |-> "" ]
    ELSE [ ret |-> << >>, shown |-> << >>, raised |-> "" ]

\* x or default, for a text x.
Or(x, default) == IF x = "" THEN default ELSE x

\* The product_info of the form shown when the lookup found nothing.
UnknownProductForm(product_name, brand, category) ==
    [ name |-> product_name, brand |-> Or(brand, "Unknown Brand"),
      image_url |-> "", category |-> Or(category, "Unknown Category") ]

\* The product_info of the manual entry form.
ManualAddForm(product_name, brand, category) ==
    [ name |-> product_name, brand |-> Or(brand, "Unknown Brand"),
      image_url |-> "", category |-> Or(category, "Manual Entry") ]

\* st.number_input(min_value, max_value): a value within the limits.
NumberInput(min_value, max_value) == min_value..max_value

\* A slip: the quick use button is shown for every row.
QuickUseShown_Always(item) == TRUE

\* The quick use button of a listed row is shown when the row holds something.
QuickUseShown(item) == item.quantity > 0

\* df[df['quantity'] > 0]
Available(df) == SelectSeq(df, LAMBDA r : r.quantity > 0)

\* The text of a row in the select box.
DisplayName(item) == << item.product_name, item.brand, item.quantity >>

\* item_options: by display name, the last of the rows with that name.
ItemOptions(available_items) ==
    [ d \in { DisplayName(available_items[k]) : k \in 1..Len(available_items) } |->
        LET k == CHOOSE k \in 1..Len(available_items) :
                     /\ DisplayName(available_items[k]) = d
                     /\ \A j \in 1..Len(available_items) :
                            DisplayName(available_items[j]) = d => j <= k
        IN  [ barcode |-> available_items[k].barcode,
              name |-> available_items[k].product_name,
              quantity |-> available_items[k].quantity ] ]

\* What a run of a scan flow was given and the barcode it went on with.
Scanned(env, camera_image, manual_barcode) ==
    [ pyzbar |-> env.pyzbar,
      camera |-> camera_image # << >>,
      decoded |-> Decoded(env, camera_image),
      manual |-> manual_barcode,
      barcode |-> ScanBarcode(env, camera_image, manual_barcode) ]

\* The camera and text inputs a scan flow can be given, by what it makes of
\* them.
ScanInputs ==
    { Scanned(env, camera_image, manual_barcode) :
        env \in Envs, camera_image \in CameraInputs, manual_barcode \in ManualInputs }

\* The record of a run.
Run(flow, scan, lookup, outcome) ==
    [ flow |-> flow, scan |-> scan, lookup |-> lookup, outcome |-> outcome ]

\* A run that makes no call.
Rendered(run) ==
    /\ ui' = run
    /\ last' = [ op |-> "run" ]
    /\ UNCHANGED << table, now, adds, sessions >>

\* A run of the Add tab, scan flow, given one of these camera and text inputs
\* and one of these answers of the remote service.
AddScan(scans, responses) ==
    \E scan \in scans :
        IF scan.barcode = << >>
        THEN Rendered(Run("add_scan", << scan >>, << >>, "nothing"))
        ELSE \E response \in responses, pressed \in BOOLEAN :
                 LET product_info == lookup_product(response)
                     lookup == << [ response |-> response, ret |-> product_info.ret,
                                    raised |-> product_info.raised ] >>
                 IN  IF product_info.ret # << >>
                     THEN IF pressed
                          THEN \E quantity \in Amounts :
                                   /\ Add(scan.barcode[1], product_info.ret[1], quantity, "2030-01-31")
                                   /\ ui' = Run("add_scan", << scan >>, lookup, "added")
                                   /\ UNCHANGED sessions
                          ELSE Rendered(Run("add_scan", << scan >>, lookup, "found"))
                     ELSE \E product_name \in NameInputs :
                              IF pressed /\ product_name # ""
                              THEN \E quantity \in Amounts :
                                       /\ Add(scan.barcode[1],
                                              UnknownProductForm(product_name, "", ""),
                                              quantity, NULL)
                                       /\ ui' = Run("add_scan", << scan >>, lookup, "added from form")
                                       /\ UNCHANGED sessions
                              ELSE Rendered(Run("add_scan", << scan >>, lookup, "form"))

\* A run of the Add tab, manual entry, with the form submitted.
ManualAdd ==
    \E barcode \in ManualInputs, product_name \in NameInputs, quantity \in Amounts :
        IF barcode # "" /\ product_name # ""
        THEN /\ Add(barcode, ManualAddForm(product_name, "", ""), quantity, NULL)
             /\ ui' = Run("add_manual", << >>, << >>, "added")
             /\ UNCHANGED sessions
        ELSE Rendered(Run("add_manual", << >>, << >>, "refused"))

\* A run of the inventory tab with the quick add button of a listed row
\* pressed.
QuickAdd ==
    \E df \in get_inventory(table) :
        \E k \in 1..Len(df) :
            /\ Add(df[k].barcode,
                   [ name |-> df[k].product_name, brand |-> df[k].brand,
                     image_url |-> df[k].image_url, category |-> df[k].category ],
                   1, NULL)
            /\ ui' = Run("quick_add", << >>, << >>, "added")
            /\ UNCHANGED sessions

\* A run of the inventory tab with the quick use button of a listed row
\* pressed.
QuickUse ==
    \E df \in get_inventory(table) :
        \E k \in 1..Len(df) :
            /\ QuickUseShown(df[k])
            /\ Use(df[k].barcode, 1)
            /\ ui' = Run("quick_use", << >>, << >>, "used")
            /\ UNCHANGED sessions

\* A run of the Use tab, scan flow, given one of these camera and text
\* inputs.
UseScan(scans) ==
    \E scan \in scans :
        LET result == IF scan.barcode = << >> THEN << >>
                      ELSE fetchone(Project(SelectByBarcode(table, scan.barcode[1]),
                                            << "product_name", "quantity" >>))
        IN  IF scan.barcode = << >>
            THEN Rendered(Run("use_scan", << scan >>, << >>, "nothing"))
            ELSE IF result = << >>
            THEN Rendered(Run("use_scan", << scan >>, << >>, "not found"))
            ELSE IF result[2] > 0
            THEN \E pressed \in BOOLEAN :
                     IF pressed
                     THEN \E use_quantity \in NumberInput(1, result[2]) :
                              /\ Use(scan.barcode[1], use_quantity)
                              /\ ui' = Run("use_scan", << scan >>, << >>, "used")
                              /\ UNCHANGED sessions
                     ELSE Rendered(Run("use_scan", << scan >>, << >>, "found"))
            ELSE Rendered(Run("use_scan", << scan >>, << >>, "out of stock"))

\* A run of the Use tab, select from list, with the button pressed.
ListUse ==
    \E df \in get_inventory(table) :
        LET item_options == ItemOptions(Available(df))
        IN  \E selected_display \in DOMAIN item_options :
                \E use_quantity \in NumberInput(1, item_options[selected_display].quantity) :
                    /\ Use(item_options[selected_display].barcode, use_quantity)
                    /\ ui' = Run("use_list", << >>, << >>, "used")
                    /\ UNCHANGED sessions

\* The state of a single session at the clock's last reading in the model:
\* the flows of the presentation layer read no timestamp.
InitUI ==
    /\ table = << >>
    /\ now = MaxTick
    /\ last = [ op |-> "init" ]
    /\ adds = [ b \in Barcodes |-> << >> ]
    /\ ui = NoRun
    /\ sessions = << >>

\* The scan flows with every library at hand: a photo that decodes or a
\* typed barcode.
PlainScans ==
    { scan \in ScanInputs : scan.pyzbar /\ scan.barcode # << >> /\ (scan.manual = "" <=> scan.camera) }

\* The remote service answers with a body of JSON: a product or no match.
PlainResponses ==
    { response \in Responses : response.exception = "" /\ response.status_code = 200 /\ response.json }

\* The remote service knows the product.
FoundResponses ==
    { response \in PlainResponses : StatusIsOne(response.data) }

\* The scan flows over every camera and text input, the product known to the
\* remote service.
NextScan ==
    \/ AddScan(ScanInputs, FoundResponses)
    \/ UseScan(ScanInputs)

\* A single session that uses the scan flows only.
SpecScan == InitUI /\ [][NextScan]_vars

\* The scan flow of the Add tab over every answer of the remote service.
NextLookup == AddScan(PlainScans, Responses)

\* A single session that adds through the scan flow only.
SpecLookup == InitUI /\ [][NextLookup]_vars

NextUI ==
    \/ AddScan(PlainScans, PlainResponses)
    \/ ManualAdd
    \/ QuickAdd
    \/ QuickUse
    \/ UseScan(PlainScans)
    \/ ListUse

\* A single session that uses every flow that calls the store.
SpecUI == InitUI /\ [][NextUI]_vars

(***************************************************************************)
(* Two sessions. Each call opens its own connection, SELECTs the row, and  *)
(* then writes and commits: nothing holds the row between the two, so the  *)
(* calls of two sessions can take these steps in any order.                *)
(***************************************************************************)
Sessions == { 1, 2 }

\* The barcode both sessions call the store for.
SessionBarcode == "111"

\* The calls of a session: Add(b, q) or Use(b, q).
SessionCalls == [ op : { "add", "use" }, quantity : Amounts ]

\* The tables the sessions start from: the empty table, or the row of the
\* barcode created at the first reading of the clock and holding Q.
StockedTable(Q) ==
    InsertRow(<< >>, SessionBarcode, LookedUp.name, LookedUp.brand, Q, isoformat(0),
              "2030-01-31", LookedUp.image_url, LookedUp.category, isoformat(0)).table

\* A slip: the write reads the row again.
SelectedAtWrite_ReadAgain(tbl, barcode, cols, selected) ==
    fetchone(Project(SelectByBarcode(tbl, barcode), cols))

\* The row a call has at its write: the one its SELECT fetched (existing,
\* result), whatever the table holds by then.
SelectedAtWrite(tbl, barcode, cols, selected) == selected

\* add_to_inventory from `if existing:` on, with the row its SELECT fetched.
add_after_select(tbl, barcode, product_info, quantity, expiry_date, current_time, selected) ==
    LET existing == SelectedAtWrite(tbl, barcode, << "quantity" >>, selected)
    IN  IF existing # << >>
        THEN LET new_quantity == AddNewQuantity(existing, quantity)
             IN  [ table |-> UpdateQuantity(tbl, barcode, new_quantity, current_time),
                   shown |-> << Msg("success", "Updated quantity to {n}", "", << new_quantity >>) >>,
                   raised |-> "" ]
        ELSE LET ins == InsertRow(tbl, barcode,
                                  Get(product_info, "name", "Unknown Product"),
                                  Get(product_info, "brand", "Unknown Brand"),
                                  quantity, current_time, expiry_date,
                                  Get(product_info, "image_url", ""),
                                  Get(product_info, "category", "Unknown Category"),
                                  current_time)
             IN  IF ins.ok
                 THEN [ table |-> ins.table,
                        shown |-> << Msg("success", "Added new item to inventory!", "", << >>) >>,
                        raised |-> "" ]
                 ELSE [ table |-> tbl, shown |-> << >>, raised |-> "sqlite3.IntegrityError" ]

\* remove_from_inventory from `if result:` on, with the row its SELECT
\* fetched.
remove_after_select(tbl, barcode, quantity, current_time, selected) ==
    LET result == SelectedAtWrite(tbl, barcode, << "quantity", "product_name" >>, selected)
    IN  IF result # << >>
        THEN LET new_quantity == UseNewQuantity(result[1], quantity)
             IN  [ table |-> UpdateQuantity(tbl, barcode, new_quantity, current_time),
                   shown |-> ShownAfterUse(result[2], quantity, new_quantity),
                   raised |-> "" ]
        ELSE [ table |-> tbl,
               shown |-> << Msg("error", "Item not found in inventory!", "", << >>) >>,
               raised |-> "" ]

\* The sessions that have written.
Written == { s \in Sessions : sessions.of[s].pc = "done" }

\* Each session is about to make one call; stock is the quantity the row
\* holds then (<< >>: no row).
InitSessions ==
    /\ now = 0
    /\ last = [ op |-> "init" ]
    /\ adds = [ b \in Barcodes |-> << >> ]
    /\ ui = NoRun
    /\ \E stock \in { << >> } \cup { << Q >> : Q \in 0..MaxQty },
          calls \in [ Sessions -> SessionCalls ] :
           /\ table = IF stock = << >> THEN << >> ELSE StockedTable(stock[1])
           /\ sessions =
                  [ stock |-> stock,
                    of |-> [ s \in Sessions |->
                               [ pc |-> "start", call |-> calls[s], current_time |-> << >>,
                                 selected |-> << >>, before |-> {}, after |-> {},
                                 shown |-> << >>, raised |-> "" ] ] ]

\* The first step of a call: an Add reads the clock (line 80), and the call
\* SELECTs the row of the barcode and fetches it (lines 83-84, 122-123).
SessionSelect(s) ==
    LET call == sessions.of[s].call
    IN  /\ sessions.of[s].pc = "start"
        /\ \E t \in IF call.op = "add" THEN ClockReadings ELSE { now } :
               /\ now' = t
               /\ sessions' =
                      [ sessions EXCEPT !.of[s] =
                          [ @ EXCEPT
                              !.pc = "selected",
                              !.current_time = IF call.op = "add" THEN << isoformat(t) >> ELSE << >>,
                              !.selected =
                                  fetchone(Project(SelectByBarcode(table, SessionBarcode),
                                                   IF call.op = "add"
                                                   THEN << "quantity" >>
                                                   ELSE << "quantity", "product_name" >>)),
                              !.before = Written ] ]
        /\ UNCHANGED << table, last, adds, ui >>

\* The second step of a call: the UPDATE or INSERT and the commit (lines
\* 86-114), or for a Use that fetched a row the reading of the clock, the
\* UPDATE and the commit (lines 125-143).
SessionWrite(s) ==
    LET call == sessions.of[s].call
        reads == call.op = "use" /\ sessions.of[s].selected # << >>
    IN  /\ sessions.of[s].pc = "selected"
        /\ \E t \in IF reads THEN ClockReadings ELSE { now } :
               LET r == IF call.op = "add"
                        THEN add_after_select(table, SessionBarcode, LookedUp, call.quantity,
                                              "2030-01-31", sessions.of[s].current_time[1],
                                              sessions.of[s].selected)
                        ELSE remove_after_select(table, SessionBarcode, call.quantity,
                                                 isoformat(t), sessions.of[s].selected)
               IN  /\ now' = t
                   /\ table' = r.table
                   /\ sessions' =
                          [ sessions EXCEPT !.of[s] =
                              [ @ EXCEPT !.pc = "done", !.after = Written,
                                         !.shown = r.shown, !.raised = r.raised ] ]
        /\ UNCHANGED << last, adds, ui >>

NextSessions ==
    \/ \E s \in Sessions : SessionSelect(s)
    \/ \E s \in Sessions : SessionWrite(s)

\* Two sessions, one call each, their steps in any order.
SpecSessions == InitSessions /\ [][NextSessions]_vars

(***************************************************************************)
(* Properties.                                                             *)
(***************************************************************************)
\* The places of barcode b's rows in a table.
RowsOf(tbl, b) == { i \in 1..Len(tbl) : tbl[i].barcode = b }

\* The clock reading a stored timestamp is the text of.
TickOf(text) == CHOOSE t \in 0..MaxTick : isoformat(t) = text

\* The last call changed a row: an Add, or a Use that found its row.
Mutated == last.op = "add" \/ (last.op = "use" /\ last.read # << >>)

\* A call showed the out-of-stock warning.
OutOfStockShown(l) ==
    \E k \in 1..Len(l.shown) :
        l.shown[k].level = "warning" /\ l.shown[k].text = "{name} is now out of stock!"

\* C1: in every reachable state every row's quantity is >= 0, and a Use of
\* more than the row holds does not fail: it leaves the quantity 0.
C1_QuantityNeverNegative ==
    /\ \A i \in 1..Len(table) : table[i].quantity >= 0
    /\ (last.op = "use" /\ last.read # << >> /\ last.read[1] < last.quantity) =>
           /\ last.raised = ""
           /\ \A i \in RowsOf(table, last.barcode) : table[i].quantity = 0

\* A Use of more than the row held (and it held something) has left it at 0.
C1_Witness ==
    /\ last.op = "use" /\ last.read # << >>
    /\ 0 < last.read[1] /\ last.read[1] < last.quantity
    /\ \E i \in RowsOf(table, last.barcode) : table[i].quantity = 0

\* C2: a Use(b, q) on a barcode whose row holds Q leaves the row with
\* max(0, Q - q) and with last_updated the time of the call, Q = 0 included.
C2_UseSetsMaxAndRefreshes ==
    [][ (last'.op = "use" /\ RowsOf(table, last'.barcode) # {}) =>
          \A i \in RowsOf(table, last'.barcode) :
              /\ i \in RowsOf(table', last'.barcode)
              /\ table'[i].quantity =
                     IF table[i].quantity > last'.quantity
                     THEN table[i].quantity - last'.quantity ELSE 0
              /\ table'[i].last_updated = isoformat(now')
              /\ last'.current_time = isoformat(now') ]_vars

\* A Use on a row that already held 0: it still holds 0, and its timestamp is
\* the call's, later than the row's creation.
C2_Witness ==
    /\ last.op = "use" /\ last.read # << >> /\ last.read[1] = 0
    /\ \E i \in RowsOf(table, last.barcode) :
           /\ table[i].quantity = 0
           /\ table[i].last_updated = last.current_time
           /\ TickOf(table[i].last_updated) > TickOf(table[i].date_added)

\* C3: after Add(b, m1, q1) on a barcode without a row and then Add(b, m2, q2),
\* with no other call on b in between, b's row holds q1 + q2 and the
\* product_name, brand, category and image_url of m1.
C3_SecondAddSumsAndKeepsMetadata ==
    \A b \in Barcodes :
        Len(adds[b]) = 2 =>
            /\ RowsOf(table, b) # {}
            /\ \A i \in RowsOf(table, b) :
                   /\ table[i].quantity = adds[b][1].quantity + adds[b][2].quantity
                   /\ table[i].product_name = adds[b][1].product_info.name
                   /\ table[i].brand = adds[b][1].product_info.brand
                   /\ table[i].category = adds[b][1].product_info.category
                   /\ table[i].image_url = adds[b][1].product_info.image_url

\* Two Adds of a barcode with different metadata, the other barcode's row
\* created in between.
C3_Witness ==
    \E b \in Barcodes :
        /\ Len(adds[b]) = 2
        /\ adds[b][1].product_info.name # adds[b][2].product_info.name
        /\ adds[b][1].product_info.image_url # adds[b][2].product_info.image_url
        /\ Len(table) = 2
        /\ table[1].barcode = b
        /\ TickOf(table[1].date_added) < TickOf(table[2].date_added)
        /\ TickOf(table[2].date_added) < TickOf(table[1].last_updated)

\* C4: an Add for a barcode without a row appends exactly one row, for that
\* barcode, with the quantity, the metadata and the expiry of the call and
\* with date_added and last_updated both the time of the call; the other rows
\* stay as they were.
C4_FirstAddCreatesOneRow ==
    [][ (last'.op = "add" /\ RowsOf(table, last'.barcode) = {}) =>
          /\ Len(table') = Len(table) + 1
          /\ SubSeq(table', 1, Len(table)) = table
          /\ Len(adds'[last'.barcode]) = 1
          /\ LET r == table'[Len(table')]
                 c == adds'[last'.barcode][1]
             IN  /\ r.barcode = last'.barcode
                 /\ r.quantity = last'.quantity
                 /\ r.product_name = c.product_info.name
                 /\ r.brand = c.product_info.brand
                 /\ r.category = c.product_info.category
                 /\ r.image_url = c.product_info.image_url
                 /\ r.expiry_date = c.expiry_date
                 /\ r.date_added = isoformat(now')
                 /\ r.last_updated = isoformat(now') ]_vars

\* A second barcode has just been added, with an amount of 2 and an expiry
\* date, after the clock has moved.
C4_Witness ==
    /\ last.op = "add" /\ last.read = << >>
    /\ Len(table) = 2
    /\ table[2].barcode = last.barcode
    /\ table[2].quantity = 2
    /\ table[2].expiry_date # NULL
    /\ TickOf(table[2].date_added) > 0

\* C5: a Use on a barcode without a row reports "Item not found in inventory!"
\* as an error and leaves the table as it was.
C5_UseOfUnknownBarcode ==
    [][ (last'.op = "use" /\ RowsOf(table, last'.barcode) = {}) =>
          /\ table' = table
          /\ last'.shown = << Msg("error", "Item not found in inventory!", "", << >>) >> ]_vars

\* A Use on a barcode without a row, in a table that holds another row.
C5_Witness ==
    /\ last.op = "use"
    /\ RowsOf(table, last.barcode) = {}
    /\ table # << >>
    /\ last.shown # << >> /\ last.shown[1].level = "error"

\* C6 as claimed: a Use reports out-of-stock exactly when it takes the quantity
\* from above 0 to 0, and not on a row that already held 0.
C6_Original ==
    [][ last'.op = "use" =>
          /\ RowsOf(table, last'.barcode) = {} => ~ OutOfStockShown(last')
          /\ \A i \in RowsOf(table, last'.barcode) :
                 OutOfStockShown(last') <=> (table[i].quantity > 0 /\ table'[i].quantity = 0) ]_vars

\* C6 as amended: a Use on a barcode with a row reports out-of-stock exactly
\* when the quantity it leaves is 0, whether or not the row held 0 before; a
\* Use on a barcode without a row does not report it.
C6_OutOfStockWheneverResultIsZero ==
    [][ last'.op = "use" =>
          /\ RowsOf(table, last'.barcode) = {} => ~ OutOfStockShown(last')
          /\ \A i \in RowsOf(table, last'.barcode) :
                 OutOfStockShown(last') <=> table'[i].quantity = 0 ]_vars

\* A Use on a row that already held 0 has reported out-of-stock again.
C6_Witness ==
    /\ last.op = "use" /\ last.read # << >> /\ last.read[1] = 0
    /\ OutOfStockShown(last)

\* C7: the table never holds two rows with the same barcode.
C7_OneRowPerBarcode ==
    \A i, j \in 1..Len(table) : table[i].barcode = table[j].barcode => i = j

\* A barcode has been added twice and has one row, beside another barcode's.
C7_Witness ==
    \E b \in Barcodes :
        /\ Len(adds[b]) = 2
        /\ Cardinality(RowsOf(table, b)) = 1
        /\ Len(table) = 2

\* A result of get_inventory holds every row of the table once.
AllRows(df) ==
    /\ Len(df) = Len(table)
    /\ \A i \in 1..Len(table) : \E k \in 1..Len(df) : df[k] = table[i]

\* A result of get_inventory is in the order of the times of last_updated,
\* latest first.
LatestFirst(df) ==
    \A i, j \in 1..Len(df) :
        i < j => TickOf(df[i].last_updated) >= TickOf(df[j].last_updated)

\* C8 as claimed: get_inventory returns all rows, latest last_updated first,
\* and after an Add or a Use that found its row, that row is the first of the
\* result.
C8_Original ==
    /\ get_inventory(table) # {}
    /\ \A df \in get_inventory(table) :
           /\ AllRows(df)
           /\ LatestFirst(df)
           /\ Mutated => df[1].barcode = last.barcode

\* C8 as amended: get_inventory returns all rows, latest last_updated first;
\* after an Add or a Use that found its row, no row has a later last_updated
\* than that row (the clock not running backwards), and the row is the first
\* of the result whenever its last_updated is later than every other row's.
C8_ListOrderedMutatedRowFirstUnlessTied ==
    /\ get_inventory(table) # {}
    /\ \A df \in get_inventory(table) :
           /\ AllRows(df)
           /\ LatestFirst(df)
           /\ Mutated =>
                  \A i \in RowsOf(table, last.barcode) :
                      /\ \A j \in 1..Len(table) :
                             TickOf(table[i].last_updated) >= TickOf(table[j].last_updated)
                      /\ (\A j \in 1..Len(table) \ {i} :
                             TickOf(table[i].last_updated) > TickOf(table[j].last_updated))
                            => df[1] = table[i]

\* The row created first has been changed after the row created second was
\* last touched: it comes first in the one possible result.
C8_Witness ==
    /\ Mutated
    /\ Len(table) = 2
    /\ table[1].barcode = last.barcode
    /\ TickOf(table[1].last_updated) > TickOf(table[2].last_updated)
    /\ TickOf(table[2].last_updated) > TickOf(table[1].date_added)
    /\ get_inventory(table) = { << table[1], table[2] >> }

\* C9: no call removes a row or changes a row's id or barcode, and an Add on a
\* barcode whose row holds 0 adds to that row and creates none.
C9_RowsAreNeverDeleted ==
    [][ /\ Len(table') >= Len(table)
        /\ \A i \in 1..Len(table) :
               table'[i].id = table[i].id /\ table'[i].barcode = table[i].barcode
        /\ (last'.op = "add" /\ \E i \in RowsOf(table, last'.barcode) : table[i].quantity = 0) =>
               /\ Len(table') = Len(table)
               /\ \A i \in RowsOf(table, last'.barcode) :
                      table'[i].quantity = last'.quantity ]_vars

\* An Add on a row that had been used down to 0.
C9_Witness ==
    /\ last.op = "add" /\ last.read = << 0 >>
    /\ \E i \in RowsOf(table, last.barcode) :
           /\ table[i].quantity = last.quantity
           /\ TickOf(table[i].last_updated) > TickOf(table[i].date_added)

\* C10 as claimed: an Add returns the quantity its row holds afterwards.
C10_Original ==
    last.op = "add" =>
        \A i \in RowsOf(table, last.barcode) : last.ret = << table[i].quantity >>

\* C10 as amended: an Add returns None on both paths. When it creates the
\* row, the row holds the amount and the message shown names no quantity; when
\* it adds to a row, the row holds the old quantity plus the amount, and the
\* message shown names that quantity.
C10_AddReturnsNoneAndShowsQuantityOnUpdate ==
    [][ last'.op = "add" =>
          /\ last'.ret = << >>
          /\ last'.raised = ""
          /\ RowsOf(table', last'.barcode) # {}
          /\ IF RowsOf(table, last'.barcode) = {}
             THEN /\ \A i \in RowsOf(table', last'.barcode) : table'[i].quantity = last'.quantity
                  /\ last'.shown = << Msg("success", "Added new item to inventory!", "", << >>) >>
             ELSE \A i \in RowsOf(table, last'.barcode) :
                      /\ table'[i].quantity = table[i].quantity + last'.quantity
                      /\ last'.shown = << Msg("success", "Updated quantity to {n}", "",
                                                << table[i].quantity + last'.quantity >>) >> ]_vars

\* An Add on a barcode with a row has returned None and shown the quantity the
\* row now holds.
C10_Witness ==
    /\ last.op = "add" /\ last.read # << >> /\ last.read[1] > 0
    /\ last.ret = << >>
    /\ \E i \in RowsOf(table, last.barcode) : last.shown[1].nums = << table[i].quantity >>

\* C11: in every reachable state every row's last_updated is not earlier than
\* its date_added, as clock readings and as the stored texts compare (the
\* clock read by the calls does not run backwards: ClockReadings).
C11_LastUpdatedNotBeforeDateAdded ==
    \A i \in 1..Len(table) :
        /\ TickOf(table[i].last_updated) >= TickOf(table[i].date_added)
        /\ ~ TextLess(table[i].last_updated, table[i].date_added)

\* A call has just refreshed a row created at an earlier reading of the clock,
\* next to a row that was never touched since its creation.
C11_Witness ==
    /\ Mutated /\ last.read # << >>
    /\ Len(table) = 2
    /\ \E i \in RowsOf(table, last.barcode) :
           /\ table[i].last_updated = last.current_time
           /\ TickOf(table[i].last_updated) > TickOf(table[i].date_added)
    /\ \E j \in 1..Len(table) :
           /\ table[j].barcode # last.barcode
           /\ table[j].last_updated = table[j].date_added

\* The columns of a row that an Add on an existing barcode and a Use leave
\* alone.
KeptColumns ==
    { "id", "barcode", "product_name", "brand", "unit", "date_added",
      "expiry_date", "image_url", "category" }

\* C12: an Add on a barcode that has a row, and a Use on it, change nothing
\* but the quantity and last_updated of that row: its other columns keep their
\* values, no row is added or removed, and the rows of the other barcodes are
\* left as they were.
C12_OnlyQuantityAndLastUpdatedChange ==
    [][ (last'.op \in { "add", "use" } /\ RowsOf(table, last'.barcode) # {}) =>
          /\ Len(table') = Len(table)
          /\ \A i \in 1..Len(table) :
                 IF table[i].barcode = last'.barcode
                 THEN \A c \in KeptColumns : table'[i][c] = table[i][c]
                 ELSE table'[i] = table[i] ]_vars

\* An Add with other metadata and another expiry date has just changed the
\* quantity and timestamp of an existing row, next to a row of the other
\* barcode with another quantity and an older timestamp.
C12_Witness ==
    /\ last.op = "add" /\ last.read # << >>
    /\ Len(table) = 2
    /\ \E i \in RowsOf(table, last.barcode) :
           /\ table[i].quantity # last.read[1]
           /\ table[i].last_updated # table[i].date_added
           /\ \E a \in AddArguments :
                  /\ a.barcode = last.barcode
                  /\ a.product_info.name # table[i].product_name
           /\ \E j \in 1..Len(table) :
                  /\ table[j].barcode # last.barcode
                  /\ table[j].quantity # table[i].quantity
                  /\ TickOf(table[j].last_updated) < TickOf(table[i].last_updated)

\* The remote service answered HTTP 200 with a JSON body whose status flag
\* is 1.
Answered(response) ==
    /\ response.exception = ""
    /\ response.status_code = 200
    /\ response.json
    /\ "status" \in DOMAIN response.data
    /\ response.data.status = 1

\* C13: in the scan flow of the Add tab, lookup_product returns a record only
\* when the remote service answers HTTP 200 with status flag 1; on every other
\* outcome it returns None and does not raise, the flow shows the form for
\* typing the product, and a form submitted with a product name adds a row
\* for the barcode (or adds to its row).
C13_LookupFailureLeavesManualEntry ==
    (ui.flow = "add_scan" /\ ui.lookup # << >>) =>
        LET lookup == ui.lookup[1]
        IN  /\ lookup.raised = ""
            /\ lookup.ret # << >> => Answered(lookup.response)
            /\ ~ Answered(lookup.response) =>
                   /\ lookup.ret = << >>
                   /\ ui.outcome \in { "form", "added from form" }
            /\ ui.outcome = "added from form" =>
                   /\ last.op = "add"
                   /\ last.barcode = ui.scan[1].barcode[1]
                   /\ last.raised = ""
                   /\ \E i \in RowsOf(table, last.barcode) :
                          table[i].quantity >= last.quantity

\* The lookup timed out, the product was typed into the form and its row was
\* created from it.
C13_Witness ==
    /\ ui.flow = "add_scan" /\ ui.outcome = "added from form"
    /\ ui.lookup[1].response.exception = "Timeout"
    /\ last.op = "add" /\ last.read = << >>
    /\ \E i \in RowsOf(table, last.barcode) :
           /\ table[i].product_name = "Soup"
           /\ table[i].category = "Unknown Category"

\* C14: in the scan flows of the Add and the Use tab, whatever the decoder
\* and the photo, a typed barcode that is not empty is the barcode the flow
\* goes on with; with nothing typed it is the decoded barcode if there is
\* one, and else the flow does nothing. Without pyzbar or without a photo
\* nothing is decoded.
C14_ManualBarcodeOverridesDecoded ==
    ui.flow \in { "add_scan", "use_scan" } =>
        LET scan == ui.scan[1]
        IN  /\ scan.manual # "" => scan.barcode = << scan.manual >>
            /\ scan.manual = "" => scan.barcode = scan.decoded
            /\ (~ scan.pyzbar \/ ~ scan.camera) => scan.decoded = << >>
            /\ scan.barcode = << >> <=> ui.outcome = "nothing"
            /\ ui.outcome = "nothing" => last.op = "run"
            /\ (ui.flow = "add_scan" /\ scan.barcode # << >>) =>
                   /\ ui.lookup # << >>
                   /\ last.op # "use"
            /\ last.op \in { "add", "use" } => last.barcode = scan.barcode[1]

\* A photo decoded to one barcode, another was typed, and the row of the
\* typed one was created.
C14_Witness ==
    /\ ui.flow = "add_scan"
    /\ ui.scan[1].decoded = << "111" >>
    /\ ui.scan[1].manual = "999"
    /\ last.op = "add" /\ last.barcode = "999" /\ last.read = << >>
    /\ RowsOf(table, "999") # {}
    /\ RowsOf(table, "111") = {}

\* C16: in a single session every Use a flow of the presentation layer makes
\* is for a barcode whose row holds Q > 0 and for an amount q with
\* 1 <= q <= Q: the row is found, nothing is clamped (the row is left with
\* Q - q) and no error is shown.
C16_UseOnlyWithinStock ==
    [][ last'.op = "use" =>
          /\ ui'.flow \in { "quick_use", "use_scan", "use_list" }
          /\ RowsOf(table, last'.barcode) # {}
          /\ \A i \in RowsOf(table, last'.barcode) :
                 /\ table[i].quantity > 0
                 /\ 1 <= last'.quantity
                 /\ last'.quantity <= table[i].quantity
                 /\ table'[i].quantity = table[i].quantity - last'.quantity
          /\ last'.read # << >>
          /\ \A k \in 1..Len(last'.shown) : last'.shown[k].level # "error" ]_vars

\* The select-from-list flow has just used all a row held, more than one.
C16_Witness ==
    /\ ui.flow = "use_list"
    /\ last.op = "use" /\ last.quantity = MaxQty /\ last.read # << >>
    /\ last.read[1] = MaxQty
    /\ \E i \in RowsOf(table, last.barcode) : table[i].quantity = 0

\* What a call makes of a row that holds Q when nothing comes between its
\* steps.
Apply(call, Q) ==
    IF call.op = "add" THEN Q + call.quantity
    ELSE IF Q > call.quantity THEN Q - call.quantity ELSE 0

\* Both sessions had fetched the row before either wrote.
Interleaved == \A s \in Sessions : sessions.of[s].before = {}

\* C15: two calls of two sessions on a row that holds Q, both done. When the
\* second call's SELECT came after the first call's write, the row holds what
\* the two calls make of Q one after the other (Q + q1 + q2 for two Adds).
\* When both had fetched the row before either wrote, the update of the call
\* that wrote first is lost: the row holds what the last writer alone makes
\* of Q.
C15_UpdateLostOnlyWhenInterleaved ==
    (Written = Sessions /\ sessions.stock # << >>) =>
        \E first, second \in Sessions :
            /\ sessions.of[first].after = {}
            /\ sessions.of[second].after = { first }
            /\ RowsOf(table, SessionBarcode) # {}
            /\ \A i \in RowsOf(table, SessionBarcode) :
                   LET Q == sessions.stock[1]
                       c1 == sessions.of[first].call
                       c2 == sessions.of[second].call
                   IN  /\ ~ Interleaved => table[i].quantity = Apply(c2, Apply(c1, Q))
                       /\ (~ Interleaved /\ c1.op = "add" /\ c2.op = "add") =>
                              table[i].quantity = Q + c1.quantity + c2.quantity
                       /\ Interleaved => table[i].quantity = Apply(c2, Q)

\* Two Adds of different amounts on a row that held something, their steps
\* interleaved: the row holds Q + q of the last writer, not Q + q1 + q2.
C15_Witness ==
    /\ Written = Sessions /\ sessions.stock # << >> /\ Interleaved
    /\ sessions.stock[1] > 0
    /\ \A s \in Sessions : sessions.of[s].call.op = "add" /\ sessions.of[s].raised = ""
    /\ sessions.of[1].call.quantity # sessions.of[2].call.quantity
    /\ \E s \in Sessions :
           /\ sessions.of[s].after # {}
           /\ \E i \in RowsOf(table, SessionBarcode) :
                  /\ table[i].quantity = sessions.stock[1] + sessions.of[s].call.quantity
                  /\ table[i].quantity <
                         sessions.stock[1] + sessions.of[1].call.quantity
                                           + sessions.of[2].call.quantity

====
